---- MODULE Spec2Model ----
(***************************************************************************)
(* The domain functions of the EventCatalog SDK (src/src/domains.ts) over  *)
(* the versioned resource store they delegate to.  The catalog directory   *)
(* is modelled as a map from directory locations to what they hold.        *)
(***************************************************************************)
EXTENDS Integers, Sequences, FiniteSets, TLC

(***************************************************************************)
(* Bounds of the model.                                                    *)
(***************************************************************************)
\* most resource directories (Primary and Archived) the catalog holds
MaxDocs == 2
\* longest services list a caller passes to writeDomain
MaxLen == 3

(***************************************************************************)
(* Values.                                                                 *)
(***************************************************************************)
Ids == {"A", "B"}
Names == {"n1", "n2"}

\* a version string "major.minor.patch"
V100 == <<1, 0, 0>>
V110 == <<1, 1, 0>>
V200 == <<2, 0, 0>>
Versions == {V100, V110, V200}

\* the x of an x-range such as "1.x"
X == -1
\* the range "1.x"
R1x == <<1, X, X>>

\* the version argument of a call: omitted, "latest", an exact version string
\* or a semver range
Omitted == [kind |-> "omitted", ver |-> <<>>]
Latest == [kind |-> "latest", ver |-> <<>>]
Exact(v) == [kind |-> "exact", ver |-> v]
Range(r) == [kind |-> "range", ver |-> r]
VersionArgs == {Omitted, Latest, Range(R1x)} \cup {Exact(v) : v \in Versions}

\* references to services, {id, version}
Ref(i, v) == [id |-> i, version |-> v]

RECURSIVE SeqsUpTo(_, _)
SeqsUpTo(S, n) ==
  IF n = 0 THEN {<<>>}
  ELSE LET shorter == SeqsUpTo(S, n - 1)
       IN shorter \cup {Append(s, x) : s \in shorter, x \in S}

\* the optional services field of a Domain: undefined, or an array
Undefined == [isArray |-> FALSE, items |-> <<>>]
Array(items) == [isArray |-> TRUE, items |-> items]

\* a Domain record; name stands for the front-matter fields name and summary
Markdown == "# Hello world"
Domain(i, v, n, s) ==
  [id |-> i, version |-> v, name |-> n, markdown |-> Markdown, services |-> s]
NoDomain == [none |-> TRUE]

(***************************************************************************)
(* Directory locations.  A path names a directory under <root>/domains;    *)
(* the canonical path of an id is domains/<id>.                            *)
(***************************************************************************)
CustomPaths == {"X"}
PathNames == Ids \cup CustomPaths
\* lexicographic order of the path names
PathOrder == <<"A", "B", "X">>
NoPath == ""

PrimaryAt(p) == <<p>>
ArchivedAt(p, v) == <<p, "versioned", v>>
IsPrimary(loc) == Len(loc) = 1
IsArchived(loc) == Len(loc) = 3
PathOf(loc) == loc[1]

\* attached files
FileNames == {"f.txt", "g.txt"}
Contents == {"c1", "c2"}
NoFiles == [n \in {} |-> "c1"]

\* a resource directory: the metadata document and the attached files
Dir(doc, files) == [doc |-> doc, files |-> files]

(***************************************************************************)
(* Error kinds.                                                            *)
(***************************************************************************)
Ok == "ok"
NotFound == "NotFound"
AlreadyExists == "AlreadyExists"
ArchiveConflict == "ArchiveConflict"

Result(err, store) == [err |-> err, fs |-> store]

\* the store without the locations in S
Without(store, S) == [l \in DOMAIN store \ S |-> store[l]]
\* the store with location loc holding dir
With(store, loc, dir) ==
  [l \in DOMAIN store \cup {loc} |-> IF l = loc THEN dir ELSE store[l]]
\* everything at or beneath a location
Beneath(store, loc) ==
  IF IsPrimary(loc) THEN {l \in DOMAIN store : PathOf(l) = PathOf(loc)}
  ELSE {l \in DOMAIN store : l = loc}

(***************************************************************************)
(* internal/utils                                                          *)
(***************************************************************************)
\* drops every entry whose id and version both equal those of an earlier one
RECURSIVE uniqueVersions(_)
uniqueVersions(list) ==
  IF list = <<>> THEN <<>>
  ELSE LET front == uniqueVersions(SubSeq(list, 1, Len(list) - 1))
           entry == list[Len(list)]
       IN IF \E i \in 1..Len(front) :
               front[i].id = entry.id /\ front[i].version = entry.version
          THEN front
          ELSE Append(front, entry)

\* rank of a path name in lexicographic order
PathRank(p) == CHOOSE i \in 1..Len(PathOrder) : PathOrder[i] = p
\* key of a version in semver order (components below 10)
VersionKey(v) == v[1] * 100 + v[2] * 10 + v[3]
\* position of a location in the traversal of the catalog tree: path order,
\* a directory before its versioned subdirectories
TraversalRank(loc) ==
  PathRank(PathOf(loc)) * 1000
    + (IF IsPrimary(loc) THEN 0 ELSE 1 + VersionKey(loc[3]))
FirstEncountered(S) ==
  CHOOSE l \in S : \A m \in S : TraversalRank(l) <= TraversalRank(m)

\* does the declared version v satisfy the x-range r
Satisfies(v, r) == \A i \in 1..3 : r[i] = X \/ r[i] = v[i]

NoFile == <<>>
\* the directory that declares id at the requested version, or NoFile
findFileById(store, id, version) ==
  LET declared == {l \in DOMAIN store : store[l].doc.data.id = id}
      primaries == {l \in declared : IsPrimary(l)}
      archived == {l \in declared : IsArchived(l)}
      verOf(l) == store[l].doc.data.version
  IN CASE version.kind \in {"omitted", "latest"} ->
            IF primaries = {} THEN NoFile ELSE FirstEncountered(primaries)
       [] version.kind = "exact" ->
            LET p == {l \in primaries : verOf(l) = version.ver}
                a == {l \in archived : verOf(l) = version.ver}
            IN IF p # {} THEN FirstEncountered(p)
               ELSE IF a # {} THEN FirstEncountered(a)
               ELSE NoFile
       [] version.kind = "range" ->
            LET m == {l \in declared : Satisfies(verOf(l), version.ver)}
                highest == {l \in m : \A k \in m :
                              VersionKey(verOf(k)) <= VersionKey(verOf(l))}
            IN IF m = {} THEN NoFile ELSE FirstEncountered(highest)

(***************************************************************************)
(* internal/resources                                                      *)
(***************************************************************************)
\* the metadata document: the front-matter fields and the body
Serialize(resource) ==
  [data |-> [id |-> resource.id, version |-> resource.version,
             name |-> resource.name, services |-> resource.services],
   content |-> resource.markdown]
Parse(doc) ==
  [id |-> doc.data.id, version |-> doc.data.version, name |-> doc.data.name,
   markdown |-> doc.content, services |-> doc.data.services]

GetResult(err, resource) == [err |-> err, resource |-> resource]

getResource(store, id, version) ==
  LET file == findFileById(store, id, version)
  IN IF file = NoFile THEN GetResult(NotFound, NoDomain)
     ELSE GetResult(Ok, Parse(store[file].doc))

\* the path a write goes to: the supplied one, else the canonical one
TargetPath(resource, path) == IF path = NoPath THEN resource.id ELSE path

writeResource(store, resource, options) ==
  LET target == PrimaryAt(TargetPath(resource, options.path))
  IN IF target \in DOMAIN store /\ ~options.override
     THEN Result(AlreadyExists, store)
     ELSE Result(Ok, With(store, target,
                          Dir(Serialize(resource),
                              IF target \in DOMAIN store
                              THEN store[target].files ELSE NoFiles)))

\* versionResource without the guard on an existing destination
versionResourceOverwrites(store, id) ==
  LET source == findFileById(store, id, Latest)
  IN IF source = NoFile THEN Result(NotFound, store)
     ELSE Result(Ok, With(Without(store, {source}),
                          ArchivedAt(PathOf(source),
                                     store[source].doc.data.version),
                          store[source]))

versionResource(store, id) ==
  LET source == findFileById(store, id, Latest)
  IN IF source = NoFile THEN Result(NotFound, store)
     ELSE LET target == ArchivedAt(PathOf(source),
                                   store[source].doc.data.version)
          IN IF target \in DOMAIN store THEN Result(ArchiveConflict, store)
             ELSE Result(Ok, With(Without(store, {source}), target,
                                  store[source]))

rmResourceById(store, id, version) ==
  LET file == findFileById(store, id, version)
  IN IF file = NoFile THEN Result(NotFound, store)
     ELSE Result(Ok, Without(store, Beneath(store, file)))

addFileToResource(store, id, file, version) ==
  LET loc == findFileById(store, id, version)
  IN IF loc = NoFile THEN Result(NotFound, store)
     ELSE Result(Ok, With(store, loc,
            Dir(store[loc].doc,
                [n \in DOMAIN store[loc].files \cup {file.fileName} |->
                   IF n = file.fileName THEN file.content
                   ELSE store[loc].files[n]])))

(***************************************************************************)
(* domains.ts                                                              *)
(***************************************************************************)
Options(path, override) == [path |-> path, override |-> override]
\* the default value of writeDomain's options parameter, { path: '' }
DefaultOptions == Options(NoPath, FALSE)

\* getDomain not passing the version on to getResource
getDomainDropsVersion(store, id, version) == getResource(store, id, Omitted)

getDomain(store, id, version) == getResource(store, id, version)

\* writeDomain forwarding the path but not the override option
writeDomainDropsOverride(store, domain, options) ==
  LET resource ==
        IF domain.services.isArray
        THEN [domain EXCEPT
                !.services = Array(uniqueVersions(domain.services.items))]
        ELSE domain
  IN writeResource(store, resource, Options(options.path, FALSE))

\* writeDomain without the uniqueVersions step
writeDomainKeepsDuplicates(store, domain, options) ==
  writeResource(store, domain, options)

writeDomain(store, domain, options) ==
  LET resource ==
        IF domain.services.isArray
        THEN [domain EXCEPT
                !.services = Array(uniqueVersions(domain.services.items))]
        ELSE domain
  IN writeResource(store, resource, options)

\* versionDomain copying the Primary directory instead of moving it
versionDomainCopies(store, id) ==
  LET source == findFileById(store, id, Latest)
      moved == versionResource(store, id)
  IN IF moved.err # Ok THEN moved
     ELSE Result(Ok, With(moved.fs, source, store[source]))

versionDomain(store, id) == versionResource(store, id)

\* fs.rm(join(directory, path), { recursive: true }): the model does not
\* record empty directories, so a path that holds nothing may or may not
\* exist; the action that calls this draws the outcome
rmDomain(store, path, emptyDirExists) ==
  IF Beneath(store, path) = {} /\ ~emptyDirExists
  THEN Result(NotFound, store)
  ELSE Result(Ok, Without(store, Beneath(store, path)))

rmDomainById(store, id, version) == rmResourceById(store, id, version)

\* addFileToDomain not passing the version on to addFileToResource
addFileToDomainDropsVersion(store, id, file, version) ==
  addFileToResource(store, id, file, Omitted)

addFileToDomain(store, id, file, version) ==
  addFileToResource(store, id, file, version)

\* domainHasVersion not passing the version on to findFileById
domainHasVersionDropsVersion(store, id, version) ==
  findFileById(store, id, Omitted) # NoFile

domainHasVersion(store, id, version) ==
  findFileById(store, id, version) # NoFile

\* domain.services after "if (domain.services === undefined) services = []"
servicesOf(domain) ==
  IF domain.services.isArray THEN domain.services.items ELSE <<>>
eventExistsInList(domain, service) ==
  \E i \in 1..Len(servicesOf(domain)) :
     /\ servicesOf(domain)[i].id = service.id
     /\ servicesOf(domain)[i].version = service.version
\* the push losing the service
pushServiceDropsService(domain, service) ==
  [domain EXCEPT !.services = Array(servicesOf(domain))]

\* the domain after domain.services.push(service)
pushService(domain, service) ==
  [domain EXCEPT !.services = Array(Append(servicesOf(domain), service))]

\* addServiceToDomain without the eventExistsInList early return
addServiceToDomainAlwaysPushes(store, id, service, version) ==
  LET got == getDomain(store, id, version)
  IN IF got.err # Ok THEN Result(got.err, store)
     ELSE LET removed == rmDomainById(store, id, version)
          IN IF removed.err # Ok THEN removed
             ELSE writeDomain(removed.fs, pushService(got.resource, service),
                              DefaultOptions)

addServiceToDomain(store, id, service, version) ==
  LET got == getDomain(store, id, version)
  IN IF got.err # Ok THEN Result(got.err, store)
     ELSE IF eventExistsInList(got.resource, service) THEN Result(Ok, store)
     ELSE LET removed == rmDomainById(store, id, version)
          IN IF removed.err # Ok THEN removed
             ELSE writeDomain(removed.fs, pushService(got.resource, service),
                              DefaultOptions)

(***************************************************************************)
(* addServiceToDomain as the steps its awaits divide it into: the read     *)
(* (await getDomain, then the synchronous check and push), the remove      *)
(* (await rmDomainById) and the write (await writeDomain).  A call in      *)
(* progress holds its arguments and the domain it read.                    *)
(***************************************************************************)
NoService == Ref("", V100)
Idle ==
  [pc |-> "idle", id |-> "", service |-> NoService, version |-> Omitted,
   domain |-> NoDomain, err |-> Ok]
\* a call that has returned, or thrown err
Done(id, service, version, err) ==
  [pc |-> "done", id |-> id, service |-> service, version |-> version,
   domain |-> NoDomain, err |-> err]

\* the call after its read step
addServiceToDomainRead(store, id, service, version) ==
  LET got == getDomain(store, id, version)
  IN IF got.err # Ok THEN Done(id, service, version, got.err)
     ELSE IF eventExistsInList(got.resource, service)
     THEN Done(id, service, version, Ok)
     ELSE [pc |-> "remove", id |-> id, service |-> service,
           version |-> version,
           domain |-> pushService(got.resource, service), err |-> Ok]

addServiceToDomainRemove(store, call) ==
  rmDomainById(store, call.id, call.version)

\* the write step forcing the domain it holds over whatever is in its way
addServiceToDomainWriteForces(store, call) ==
  LET r == writeDomain(store, call.domain, DefaultOptions)
  IN IF r.err = Ok THEN r
     ELSE Result(r.err,
                 writeDomain(store, call.domain, Options(NoPath, TRUE)).fs)

addServiceToDomainWrite(store, call) ==
  writeDomain(store, call.domain, DefaultOptions)

(***************************************************************************)
(* State: the catalog directory; the most recent call or step: the         *)
(* function, the error it raised and the branch of the code it took; and   *)
(* the addServiceToDomain call each concurrent caller has in progress.     *)
(***************************************************************************)
VARIABLES fs, last, calls
vars == <<fs, last, calls>>

Callers == {1, 2}

File(name, content) == [fileName |-> name, content |-> content]
Call(op, err, branch) ==
  [op |-> op, err |-> err, branch |-> branch, deduped |-> FALSE]

Init ==
  /\ fs = [l \in {} |-> Dir(NoDomain, NoFiles)]
  /\ last = Call("none", Ok, "none")
  /\ calls = [c \in Callers |-> Idle]

GetDomain(I, V) ==
  \E id \in I, version \in V :
    LET r == getDomain(fs, id, version)
    IN /\ fs' = fs
       /\ last' = Call("getDomain", r.err,
                       IF r.err = Ok THEN "found" ELSE "missing")
       /\ UNCHANGED calls

WriteDomain(D, P) ==
  \E domain \in D, path \in P, override \in BOOLEAN :
    LET r == writeDomain(fs, domain, Options(path, override))
        occupied == PrimaryAt(TargetPath(domain, path)) \in DOMAIN fs
    IN /\ Cardinality(DOMAIN r.fs) <= MaxDocs
       /\ fs' = r.fs
       /\ last' = [Call("writeDomain", r.err,
                         IF r.err # Ok THEN "rejected"
                         ELSE IF occupied THEN "replaced" ELSE "created")
                      EXCEPT !.deduped =
                        /\ domain.services.isArray
                        /\ uniqueVersions(domain.services.items)
                             # domain.services.items]
       /\ UNCHANGED calls

VersionDomain(I) ==
  \E id \in I :
    LET r == versionDomain(fs, id)
    IN /\ fs' = r.fs
       /\ last' = Call("versionDomain", r.err,
                       IF r.err = Ok THEN "moved" ELSE "refused")
       /\ UNCHANGED calls

RmDomain(P) ==
  \E path \in P, emptyDirExists \in BOOLEAN :
    LET r == rmDomain(fs, PrimaryAt(path), emptyDirExists)
    IN /\ fs' = r.fs
       /\ last' = Call("rmDomain", r.err,
                       IF r.err = Ok THEN "removed" ELSE "missing")
       /\ UNCHANGED calls

RmDomainById(I, V) ==
  \E id \in I, version \in V :
    LET r == rmDomainById(fs, id, version)
    IN /\ fs' = r.fs
       /\ last' = Call("rmDomainById", r.err,
                       IF r.err = Ok THEN "removed" ELSE "missing")
       /\ UNCHANGED calls

AddFileToDomain(I, F, V) ==
  \E id \in I, file \in F, version \in V :
    LET r == addFileToDomain(fs, id, file, version)
    IN /\ fs' = r.fs
       /\ last' = Call("addFileToDomain", r.err,
                       IF r.err = Ok THEN "attached" ELSE "missing")
       /\ UNCHANGED calls

DomainHasVersion(I, V) ==
  \E id \in I, version \in V \ {Omitted} :
    /\ fs' = fs
    /\ last' = Call("domainHasVersion", Ok,
                    IF domainHasVersion(fs, id, version)
                    THEN "found" ELSE "missing")
    /\ UNCHANGED calls

AddServiceToDomain(I, S, V) ==
  \E id \in I, service \in S, version \in V :
    LET r == addServiceToDomain(fs, id, service, version)
        got == getDomain(fs, id, version)
    IN /\ fs' = r.fs
       /\ last' = Call("addServiceToDomain", r.err,
                       IF got.err # Ok THEN "missing"
                       ELSE IF eventExistsInList(got.resource, service)
                       THEN "present"
                       ELSE IF r.err = Ok THEN "appended" ELSE "lost")
       /\ UNCHANGED calls

\* the read step of a call by caller c
AddServiceToDomainRead(c, I, S, V) ==
  \E id \in I, service \in S, version \in V :
    LET call == addServiceToDomainRead(fs, id, service, version)
    IN /\ calls[c].pc = "idle"
       /\ fs' = fs
       /\ calls' = [calls EXCEPT ![c] = call]
       /\ last' = Call("addServiceToDomain", call.err,
                       IF call.err # Ok THEN "missing"
                       ELSE IF call.pc = "done" THEN "present" ELSE "read")

AddServiceToDomainRemove(c) ==
  LET r == addServiceToDomainRemove(fs, calls[c])
  IN /\ calls[c].pc = "remove"
     /\ fs' = r.fs
     /\ calls' = [calls EXCEPT ![c] =
                    IF r.err = Ok THEN [calls[c] EXCEPT !.pc = "write"]
                    ELSE Done(calls[c].id, calls[c].service,
                              calls[c].version, r.err)]
     /\ last' = Call("addServiceToDomain", r.err,
                     IF r.err = Ok THEN "removed" ELSE "missing")

AddServiceToDomainWrite(c) ==
  LET r == addServiceToDomainWrite(fs, calls[c])
  IN /\ calls[c].pc = "write"
     /\ fs' = r.fs
     /\ calls' = [calls EXCEPT ![c] =
                    Done(calls[c].id, calls[c].service, calls[c].version,
                         r.err)]
     /\ last' = Call("addServiceToDomain", r.err,
                     IF r.err = Ok THEN "appended" ELSE "lost")

\* the caller takes the outcome of its call and is free to call again
Return(c) ==
  /\ calls[c].pc = "done"
  /\ calls' = [calls EXCEPT ![c] = Idle]
  /\ UNCHANGED <<fs, last>>

(***************************************************************************)
(* Spec: the life cycle of domains without services, over two ids and two  *)
(* versions; a caller-supplied path is the directory of either id.         *)
(***************************************************************************)
LifeVersions == {V100, V200}
LifeVersionArgs ==
  {Omitted, Latest, Range(R1x)} \cup {Exact(v) : v \in LifeVersions}
PlainDomains ==
  {Domain(i, v, n, Undefined) : i \in Ids, v \in LifeVersions, n \in Names}
PathOptions == {NoPath} \cup Ids

Next ==
  \/ GetDomain(Ids, LifeVersionArgs)
  \/ WriteDomain(PlainDomains, PathOptions)
  \/ VersionDomain(Ids)
  \/ RmDomain(Ids)
  \/ RmDomainById(Ids, LifeVersionArgs)
  \/ DomainHasVersion(Ids, LifeVersionArgs)

Spec == Init /\ [][Next]_vars

(***************************************************************************)
(* SpecWrite: writeDomain of one id with every services list up to MaxLen, *)
(* to the canonical path and a caller-supplied one.                        *)
(***************************************************************************)
ServiceRefs == {Ref("S", V100), Ref("S", V200)}
ServiceLists ==
  {Undefined} \cup {Array(l) : l \in SeqsUpTo(ServiceRefs, MaxLen)}
ServiceDomains ==
  {Domain("A", v, "n1", s) : v \in LifeVersions, s \in ServiceLists}
ServicePaths == {NoPath, "X"}

NextWrite ==
  \/ WriteDomain(ServiceDomains, ServicePaths)
  \/ RmDomain({"A", "X"})

SpecWrite == Init /\ [][NextWrite]_vars

(***************************************************************************)
(* SpecServices: one id whose services lists grow by addServiceToDomain,   *)
(* over two versions, its canonical path and a caller-supplied path that   *)
(* comes before it in traversal order.                                     *)
(***************************************************************************)
ServiceId == "B"
ShortLists == {Undefined} \cup {Array(l) : l \in SeqsUpTo(ServiceRefs, 1)}
ShortDomains ==
  {Domain(ServiceId, v, "n1", s) : v \in LifeVersions, s \in ShortLists}
AddPaths == {NoPath, "A"}

NextServices ==
  \/ GetDomain({ServiceId}, LifeVersionArgs)
  \/ WriteDomain(ShortDomains, AddPaths)
  \/ VersionDomain({ServiceId})
  \/ RmDomainById({ServiceId}, LifeVersionArgs)
  \/ AddServiceToDomain({ServiceId}, ServiceRefs, LifeVersionArgs)

SpecServices == Init /\ [][NextServices]_vars

\* SpecCanonical: the same calls when no caller supplies a path
NextCanonical ==
  \/ GetDomain({ServiceId}, LifeVersionArgs)
  \/ WriteDomain(ShortDomains, {NoPath})
  \/ VersionDomain({ServiceId})
  \/ RmDomainById({ServiceId}, LifeVersionArgs)
  \/ AddServiceToDomain({ServiceId}, ServiceRefs, LifeVersionArgs)

SpecCanonical == Init /\ [][NextCanonical]_vars

(***************************************************************************)
(* SpecFiles: domains with attached files, at their canonical paths: id A  *)
(* over two versions with files attached and a service added, id B beside *)
(* it.                                                                     *)
(***************************************************************************)
FileId == "A"
Files == {File(n, c) : n \in FileNames, c \in Contents}
FileDomains ==
  {Domain(FileId, v, "n1", Undefined) : v \in LifeVersions}
    \cup {Domain("B", V100, "n1", Undefined)}
FileServices == {Ref("S", V100)}
FileVersionArgs == {Omitted} \cup {Exact(v) : v \in LifeVersions}

NextFiles ==
  \/ WriteDomain(FileDomains, {NoPath})
  \/ VersionDomain(Ids)
  \/ RmDomainById(Ids, FileVersionArgs)
  \/ AddFileToDomain({FileId}, Files, FileVersionArgs)
  \/ AddServiceToDomain({FileId}, FileServices, FileVersionArgs)

SpecFiles == Init /\ [][NextFiles]_vars

(***************************************************************************)
(* SpecRange: id A over three versions, two of them of major 1, id B       *)
(* beside it, at their canonical paths, read and removed by semver range.  *)
(***************************************************************************)
\* the ranges "1.x", "1.1.x", "2.x" and "x"
Ranges == {R1x, <<1, 1, X>>, <<2, X, X>>, <<X, X, X>>}
RangeArgs == {Omitted} \cup {Range(r) : r \in Ranges}
RangeDomains ==
  {Domain("A", v, "n1", Undefined) : v \in Versions}
    \cup {Domain("B", V110, "n2", Undefined)}

NextRange ==
  \/ GetDomain(Ids, RangeArgs)
  \/ WriteDomain(RangeDomains, {NoPath})
  \/ VersionDomain(Ids)
  \/ RmDomainById(Ids, RangeArgs)

SpecRange == Init /\ [][NextRange]_vars

(***************************************************************************)
(* SpecCalls: two callers whose addServiceToDomain calls on one id run     *)
(* step by step in any order, each caller adding a service of its own;     *)
(* the catalog is set up while no call is in progress.                     *)
(***************************************************************************)
CallDomains == {Domain(ServiceId, v, "n1", Undefined) : v \in LifeVersions}
CallVersionArgs == {Omitted, Exact(V100)}
ServiceOf(c) == IF c = 1 THEN Ref("S", V100) ELSE Ref("S", V200)
Quiet == \A c \in Callers : calls[c].pc = "idle"

NextCalls ==
  \/ (Quiet /\ WriteDomain(CallDomains, {NoPath}))
  \/ (Quiet /\ VersionDomain({ServiceId}))
  \/ AddServiceToDomainRead(1, {ServiceId}, {ServiceOf(1)}, CallVersionArgs)
  \/ AddServiceToDomainRead(2, {ServiceId}, {ServiceOf(2)}, CallVersionArgs)
  \/ \E c \in Callers : AddServiceToDomainRemove(c)
  \/ \E c \in Callers : AddServiceToDomainWrite(c)
  \/ \E c \in Callers : Return(c)

SpecCalls == Init /\ [][NextCalls]_vars

(***************************************************************************)
(* Claims.                                                                 *)
(***************************************************************************)
\* what a reader makes of the directory at a location
ReadAt(store, loc) == Parse(store[loc].doc)

FirstSeen(list) ==
  LET kept == {i \in 1..Len(list) :
                 \A j \in 1..(i - 1) :
                    list[j].id # list[i].id
                      \/ list[j].version # list[i].version}
      nth(k) == CHOOSE i \in kept : Cardinality({j \in kept : j <= i}) = k
  IN [k \in 1..Cardinality(kept) |-> list[nth(k)]]

\* C2: for every services list passed to a writeDomain that succeeds, the
\* list stored has no two entries with the same id and version, and is the
\* input with every later duplicate dropped, first occurrences kept in order
\* (entries that share only the id are all kept).
C2_StoredServices ==
  \A domain \in ServiceDomains, path \in ServicePaths, override \in BOOLEAN :
    LET r == writeDomain(fs, domain, Options(path, override))
        stored == ReadAt(r.fs, PrimaryAt(TargetPath(domain, path))).services
    IN (r.err = Ok /\ domain.services.isArray) =>
         /\ stored.isArray
         /\ \A i, j \in 1..Len(stored.items) :
              (stored.items[i].id = stored.items[j].id
                 /\ stored.items[i].version = stored.items[j].version)
                => i = j
         /\ stored.items = FirstSeen(domain.services.items)

\* a write has just dropped a duplicate and stored two entries of one id
C2_Witness ==
  /\ last.op = "writeDomain" /\ last.err = Ok /\ last.deduped
  /\ \E l \in DOMAIN fs :
        /\ Len(fs[l].doc.data.services.items) = 2
        /\ fs[l].doc.data.services.items[1].id
             = fs[l].doc.data.services.items[2].id

\* the stores the calls that never write a metadata document can leave
AfterNonWrite(store) ==
  {versionDomain(store, i).fs : i \in Ids}
    \cup {rmDomainById(store, i, v).fs : i \in Ids, v \in LifeVersionArgs}
    \cup {rmDomain(store, PrimaryAt(p), e).fs : p \in PathNames, e \in BOOLEAN}
    \cup {addFileToDomain(store, i, File(n, c), v).fs :
             i \in Ids, n \in FileNames, c \in Contents, v \in LifeVersionArgs}

\* C3: whenever versionDomain(id) succeeds on a domain whose Primary has
\* version v, afterwards getDomain(id) and getDomain(id, "latest") fail with
\* NotFound, and keep failing after any call that is not a write, and
\* getDomain(id, v) returns the content the Primary had before the call.
C3_ArchiveThenResolve ==
  \A id \in Ids :
    LET source == findFileById(fs, id, Latest)
        r == versionDomain(fs, id)
    IN r.err = Ok =>
         /\ getDomain(r.fs, id, Omitted).err = NotFound
         /\ getDomain(r.fs, id, Latest).err = NotFound
         /\ \A later \in AfterNonWrite(r.fs) :
              getDomain(later, id, Latest).err = NotFound
         /\ getDomain(r.fs, id, Exact(ReadAt(fs, source).version))
              = GetResult(Ok, ReadAt(fs, source))

\* the domain as a write stores it: its services list deduplicated
Deduplicated(domain) ==
  IF domain.services.isArray
  THEN [domain EXCEPT !.services = Array(FirstSeen(domain.services.items))]
  ELSE domain

\* C4: for every id and two distinct versions v1, v2: whenever writeDomain
\* of the id at v1, versionDomain(id) and writeDomain of the id at v2 succeed
\* in sequence, getDomain(id) and getDomain(id, "latest") return the v2
\* resource and getDomain(id, v1) returns the v1 content.
C4_WriteArchiveWrite ==
  \A d1, d2 \in PlainDomains :
    (d1.id = d2.id /\ d1.version # d2.version) =>
      LET w1 == writeDomain(fs, d1, DefaultOptions)
          a == versionDomain(w1.fs, d1.id)
          w2 == writeDomain(a.fs, d2, DefaultOptions)
      IN (w1.err = Ok /\ a.err = Ok /\ w2.err = Ok) =>
           /\ getDomain(w2.fs, d1.id, Omitted) = GetResult(Ok, d2)
           /\ getDomain(w2.fs, d1.id, Latest) = GetResult(Ok, d2)
           /\ getDomain(w2.fs, d1.id, Exact(d1.version)) = GetResult(Ok, d1)

\* the Primary locations that declare an id, and the Archived ones
PrimariesOf(store, id) ==
  {l \in DOMAIN store : IsPrimary(l) /\ store[l].doc.data.id = id}
ArchivedOf(store, id) ==
  {l \in DOMAIN store : IsArchived(l) /\ store[l].doc.data.id = id}

\* C5: in every reachable catalog each id has at most one Primary location,
\* and no two Archived locations of an id declare the same version.
C5_OnePrimary ==
  \A id \in Ids :
    /\ Cardinality(PrimariesOf(fs, id)) <= 1
    /\ \A k, l \in ArchivedOf(fs, id) :
         fs[k].doc.data.version = fs[l].doc.data.version => k = l

\* C9: for every domain r and every writeDomain(r) that succeeds, getDomain
\* at r's id and version returns r with its services list deduplicated.
C9_RoundTrip ==
  \A domain \in PlainDomains \cup ServiceDomains,
     path \in PathOptions, override \in BOOLEAN :
    LET w == writeDomain(fs, domain, Options(path, override))
    IN w.err = Ok =>
         getDomain(w.fs, domain.id, Exact(domain.version))
           = GetResult(Ok, Deduplicated(domain))

\* the range "2.x"
R2x == <<2, X, X>>

\* C6: in every state a call leaves, domainHasVersion(id, "latest") holds
\* exactly when some Primary location declares id, and
\* domainHasVersion(id, "1.x") / (id, "2.x") exactly when some Primary or
\* Archived location of id declares a version of that major; a
\* domainHasVersion call raises no error and leaves the catalog unchanged.
\* (The probe can be called in every reachable catalog, so the states it
\* leaves are all of them.)
C6_HasVersion ==
  [][
      (last'.op = "domainHasVersion") =>
        (/\ fs' = fs
         /\ last'.err = Ok
         /\ \A id \in Ids :
              /\ domainHasVersion(fs', id, Latest)
                   <=> (PrimariesOf(fs', id) # {})
              /\ \A major \in {1, 2} :
                   domainHasVersion(fs', id, Range(<<major, X, X>>))
                     <=> (\E l \in PrimariesOf(fs', id)
                                    \cup ArchivedOf(fs', id) :
                            fs'[l].doc.data.version[1] = major))
    ]_vars

\* a probe has just answered true for an id that has an Archived 1.x
\* version and no Primary
C6_Witness ==
  /\ last = Call("domainHasVersion", Ok, "found")
  /\ \E id \in Ids :
        /\ PrimariesOf(fs, id) = {}
        /\ domainHasVersion(fs, id, Range(R1x))
        /\ ~domainHasVersion(fs, id, Range(R2x))

Occurrences(list, service) ==
  Cardinality({i \in 1..Len(list) :
                 list[i].id = service.id /\ list[i].version = service.version})

\* C7: whenever addServiceToDomain(id, service, version) succeeds, the domain
\* that (id, version) then resolves to lists the service exactly once, and
\* the same call made again succeeds and leaves the catalog exactly as the
\* first call left it.
C7_AddServiceTwice ==
  \A service \in ServiceRefs, version \in LifeVersionArgs :
    LET first == addServiceToDomain(fs, ServiceId, service, version)
        second == addServiceToDomain(first.fs, ServiceId, service, version)
        after == getDomain(first.fs, ServiceId, version)
    IN first.err = Ok =>
         /\ after.err = Ok
         /\ Occurrences(servicesOf(after.resource), service) = 1
         /\ second.err = Ok
         /\ second.fs = first.fs

\* a call has just appended a service to a domain that listed another one,
\* and the repeated call finds it present
C7_Witness ==
  /\ last = Call("addServiceToDomain", Ok, "appended")
  /\ \E service \in ServiceRefs :
        /\ getDomain(fs, ServiceId, Latest).err = Ok
        /\ Len(servicesOf(getDomain(fs, ServiceId, Latest).resource)) = 2
        /\ eventExistsInList(getDomain(fs, ServiceId, Latest).resource, service)
        /\ addServiceToDomain(fs, ServiceId, service, Latest) = Result(Ok, fs)

\* C8: for every version v of the id that resolves, Primary or Archived, to
\* a domain whose services list lacks the service,
\* addServiceToDomain(id, service, v) succeeds and getDomain(id, v) then
\* returns the same domain with the service appended to its services list.
C8_AddServiceAppends ==
  \A service \in ServiceRefs, v \in LifeVersions :
    LET got == getDomain(fs, ServiceId, Exact(v))
        r == addServiceToDomain(fs, ServiceId, service, Exact(v))
    IN (got.err = Ok /\ ~eventExistsInList(got.resource, service)) =>
         /\ r.err = Ok
         /\ getDomain(r.fs, ServiceId, Exact(v))
              = GetResult(Ok, pushService(got.resource, service))

\* C11: whenever versionDomain(id) succeeds, the Archived location
\* versioned/<version> under the Primary it resolved holds the Primary's
\* metadata document and every file that was attached to it, with the same
\* content; nothing is left at the Primary location; every other location is
\* as before.
C11_ArchiveMoves ==
  \A id \in Ids :
    LET source == findFileById(fs, id, Latest)
        r == versionDomain(fs, id)
        target == ArchivedAt(PathOf(source), fs[source].doc.data.version)
    IN r.err = Ok =>
         /\ target \in DOMAIN r.fs
         /\ r.fs[target].doc = fs[source].doc
         /\ \A n \in DOMAIN fs[source].files :
              /\ n \in DOMAIN r.fs[target].files
              /\ r.fs[target].files[n] = fs[source].files[n]
         /\ DOMAIN r.fs[target].files = DOMAIN fs[source].files
         /\ source \notin DOMAIN r.fs
         /\ \A l \in DOMAIN fs \ {source} : r.fs[l] = fs[l]

\* a versionDomain call has just moved a Primary that had two files attached
C11_Witness ==
  /\ last = Call("versionDomain", Ok, "moved")
  /\ \E l \in DOMAIN fs :
        /\ IsArchived(l)
        /\ DOMAIN fs[l].files = FileNames
        /\ fs[l].files["f.txt"] # fs[l].files["g.txt"]
        /\ PrimaryAt(PathOf(l)) \notin DOMAIN fs

\* C12: for every id and version argument: when (id, version) does not
\* resolve, rmDomainById fails with NotFound and leaves the catalog as it
\* was; when rmDomainById succeeds, the same call made again at once fails
\* with NotFound.
C12_RemoveTwice ==
  \A id \in Ids, version \in VersionArgs \cup RangeArgs :
    LET r == rmDomainById(fs, id, version)
    IN /\ (findFileById(fs, id, version) = NoFile)
            => (r = Result(NotFound, fs))
       /\ (r.err = Ok)
            => (rmDomainById(r.fs, id, version) = Result(NotFound, r.fs))

\* semver precedence: is version v lower than or equal to version w
NotHigher(v, w) ==
  \/ v[1] < w[1]
  \/ (v[1] = w[1] /\ v[2] < w[2])
  \/ (v[1] = w[1] /\ v[2] = w[2] /\ v[3] <= w[3])
\* is version v in the x-range r: every component r fixes is v's
InRange(v, r) ==
  /\ (r[1] # X) => (v[1] = r[1])
  /\ (r[2] # X) => (v[2] = r[2])
  /\ (r[3] # X) => (v[3] = r[3])

\* C15: for every id and semver range r: getDomain(id, r) fails with
\* NotFound exactly when no Primary or Archived location of id declares a
\* version in r; otherwise it returns the content of a location of id whose
\* version is in r and is not lower than any other version of id in r.
C15_RangeHighest ==
  \A id \in Ids, r \in Ranges :
    LET candidates == PrimariesOf(fs, id) \cup ArchivedOf(fs, id)
        matching == {l \in candidates : InRange(fs[l].doc.data.version, r)}
        got == getDomain(fs, id, Range(r))
    IN /\ (got.err = NotFound) <=> (matching = {})
       /\ (matching # {}) =>
            /\ got.err = Ok
            /\ \E l \in matching :
                 /\ got.resource = ReadAt(fs, l)
                 /\ \A k \in matching :
                      NotHigher(fs[k].doc.data.version, fs[l].doc.data.version)

\* a range read has just returned an Archived version that is higher than
\* the Primary, both in the range
C15_Witness ==
  /\ last = Call("getDomain", Ok, "found")
  /\ PrimaryAt("A") \in DOMAIN fs
  /\ ArchivedAt("A", V110) \in DOMAIN fs
  /\ fs[PrimaryAt("A")].doc.data.version = V100
  /\ getDomain(fs, "A", Range(R1x)).resource.version = V110

\* C13: for every id and exact version v that resolves to an Archived
\* location: rmDomainById(id, v) succeeds and deletes that location only;
\* afterwards (id, v) fails to resolve with NotFound, and every other
\* location, the Primary of id, its other Archived versions and the
\* locations of other ids, holds what it held.
C13_RemoveArchived ==
  \A id \in Ids, v \in Versions :
    LET loc == findFileById(fs, id, Exact(v))
        r == rmDomainById(fs, id, Exact(v))
    IN (loc # NoFile /\ IsArchived(loc)) =>
         /\ r.err = Ok
         /\ getDomain(r.fs, id, Exact(v)).err = NotFound
         /\ DOMAIN r.fs = DOMAIN fs \ {loc}
         /\ \A l \in DOMAIN fs \ {loc} : r.fs[l] = fs[l]

\* C14: for every id, file and version argument: when (id, version) does
\* not resolve, addFileToDomain fails with NotFound and the catalog is as it
\* was; otherwise it succeeds, the directory (id, version) resolves to then
\* holds the file under fileName with the given content, and its metadata
\* document, its other files and every other location are as before.
C14_AttachOneFile ==
  \A id \in Ids, file \in Files, version \in LifeVersionArgs :
    LET loc == findFileById(fs, id, version)
        r == addFileToDomain(fs, id, file, version)
    IN /\ (loc = NoFile) => (r = Result(NotFound, fs))
       /\ (loc # NoFile) =>
            /\ r.err = Ok
            /\ DOMAIN r.fs = DOMAIN fs
            /\ r.fs[loc].doc = fs[loc].doc
            /\ DOMAIN r.fs[loc].files
                 = DOMAIN fs[loc].files \cup {file.fileName}
            /\ r.fs[loc].files[file.fileName] = file.content
            /\ \A n \in DOMAIN fs[loc].files \ {file.fileName} :
                 r.fs[loc].files[n] = fs[loc].files[n]
            /\ \A l \in DOMAIN fs \ {loc} : r.fs[l] = fs[l]

\* a file has just been attached to an Archived version that holds another
\* file, beside a Primary without files
C14_Witness ==
  /\ last = Call("addFileToDomain", Ok, "attached")
  /\ \E l \in DOMAIN fs :
        /\ IsArchived(l)
        /\ DOMAIN fs[l].files = FileNames
        /\ PrimaryAt(PathOf(l)) \in DOMAIN fs
        /\ fs[PrimaryAt(PathOf(l))].files = NoFiles

\* C17: whenever addServiceToDomain(id, service, version) succeeds on a
\* domain that resolves, (id, version) resolves afterwards to a directory
\* that holds every file the resolved directory held before the call, with
\* the same content.
C17_AddServiceKeepsFiles ==
  \A service \in FileServices, version \in LifeVersionArgs :
    LET loc == findFileById(fs, FileId, version)
        r == addServiceToDomain(fs, FileId, service, version)
        after == findFileById(r.fs, FileId, version)
    IN (loc # NoFile /\ r.err = Ok) =>
         /\ after # NoFile
         /\ \A n \in DOMAIN fs[loc].files :
              /\ n \in DOMAIN r.fs[after].files
              /\ r.fs[after].files[n] = fs[loc].files[n]

\* C18: for every call addServiceToDomain(id, service, version) on a domain
\* that resolves, whether it succeeds or fails: every Primary or Archived
\* location of id that declares another version than the targeted one still
\* resolves by its exact version afterwards, to the content it had.
C18_AddServiceOtherVersions ==
  \A service \in ServiceRefs, version \in LifeVersionArgs :
    LET loc == findFileById(fs, ServiceId, version)
        r == addServiceToDomain(fs, ServiceId, service, version)
        others == {l \in PrimariesOf(fs, ServiceId)
                           \cup ArchivedOf(fs, ServiceId) :
                     fs[l].doc.data.version # fs[loc].doc.data.version}
    IN (loc # NoFile) =>
         \A l \in others :
            getDomain(r.fs, ServiceId, Exact(fs[l].doc.data.version))
              = GetResult(Ok, ReadAt(fs, l))

\* C16: the remove step and the write step of addServiceToDomain are
\* separate: when the remove step of a call succeeds, the directory the call
\* resolved is gone and the call has yet to write; when the write step then
\* fails, the call ends with that error and the catalog stays as the remove
\* step left it, nothing restored and nothing retried.
C16_NotAtomic ==
  [][
      \A c \in Callers :
        /\ (calls[c].pc = "remove" /\ calls'[c].pc = "write") =>
             (/\ findFileById(fs, calls[c].id, calls[c].version)
                   \notin DOMAIN fs'
              /\ fs' # fs)
        /\ (calls[c].pc = "write" /\ calls'[c].pc # "write") =>
             (/\ calls'[c].pc = "done"
              /\ calls'[c].err
                   = writeDomain(fs, calls[c].domain, DefaultOptions).err
              /\ (calls'[c].err # Ok) => (fs' = fs))
    ]_vars

\* the write step of a call has just failed, the call has ended with
\* AlreadyExists, and the domain it set out to update no longer resolves
C16_Witness ==
  /\ last = Call("addServiceToDomain", AlreadyExists, "lost")
  /\ \E c \in Callers :
        /\ calls[c].pc = "done"
        /\ calls[c].err = AlreadyExists
        /\ getDomain(fs, calls[c].id, calls[c].version).err = NotFound

\* both callers' calls, on the same id and version with their two services,
\* have ended without error, the second of them just now
BothAdded ==
  /\ last.op = "addServiceToDomain"
  /\ \A c \in Callers : calls[c].pc = "done" /\ calls[c].err = Ok
  /\ calls[1].id = calls[2].id
  /\ calls[1].version = calls[2].version
  /\ calls[1].service # calls[2].service

====
